---- MODULE Spec2Model ----
(***************************************************************************)
(* Near-Earth-object dataset: entity construction (models.py), CSV loading *)
(* (extract.py), attribute filters, the criterion compiler and the result  *)
(* limiter (filters.py).                                                   *)
(*                                                                         *)
(* Python values are tagged records, so that None, False, 0, NaN and the   *)
(* empty string stay distinct values.  Floats are fixed-point integers in  *)
(* thousandths (float("0.370") is 370); NaN is a value of its own.         *)
(***************************************************************************)
EXTENDS Integers, Sequences, FiniteSets, TLC

VARIABLES
    csv_rows,      \* extract.py: the data rows of the CSV file (after the header line)
    reader_pos,    \* extract.py: number of data rows the csv.DictReader has handed out
    neo_list,      \* extract.py: load_neos' local list
    load_pc,       \* extract.py: position in load_neos
    load_result,   \* extract.py: what load_neos returned or raised
    args,          \* filters.py: the ten keyword arguments of the create_filters call
    filters,       \* filters.py: the tuple create_filters returned
    compile_pc,    \* filters.py: position of the create_filters call
    items,         \* filters.py: what the iterator handed to limit produces, in order
    drawn,         \* filters.py: number of items that iterator has produced so far
    n,             \* filters.py: limit's argument n
    taken,         \* filters.py: the list that list(islice(iterator, n)) is building
    limit_pc,      \* filters.py: position in limit and in its caller
    limit_result,  \* filters.py: what limit returned or raised
    consumed,      \* what the caller has drawn from limit's return value
    neos,          \* models.py: the NearEarthObjects of the dataset, by designation
    approaches,    \* models.py: the linked CloseApproaches of the dataset
    preds,         \* filters.py: the predicate objects constructed so far
    results        \* what each predicate call returned or raised

loadVars == <<csv_rows, reader_pos, neo_list, load_pc, load_result>>
compileVars == <<args, filters, compile_pc>>
limitVars == <<items, drawn, n, taken, limit_pc, limit_result, consumed>>
evalVars == <<neos, approaches, preds, results>>

vars == <<csv_rows, reader_pos, neo_list, load_pc, load_result,
          args, filters, compile_pc,
          items, drawn, n, taken, limit_pc, limit_result, consumed,
          neos, approaches, preds, results>>

-----------------------------------------------------------------------------
(* Python values *)

None == [tag |-> "None"]
NaN == [tag |-> "nan"]
Float(x) == [tag |-> "float", val |-> x]
Bool(b) == [tag |-> "bool", val |-> b]
Str(s) == [tag |-> "str", val |-> s]
Date(d) == [tag |-> "date", val |-> d]
Datetime(d, h) == [tag |-> "datetime", day |-> d, hour |-> h]
PyInt(x) == [tag |-> "int", val |-> x]

\* what a call produces: a returned value or a raised exception
Return(v) == [tag |-> "return", val |-> v]
Raise(type) == [tag |-> "exception", type |-> type]

Range(s) == {s[i] : i \in DOMAIN s}

-----------------------------------------------------------------------------
(* float(str) on a decimal literal, in thousandths *)

DigitVal(c) ==
    CASE c = "0" -> 0 [] c = "1" -> 1 [] c = "2" -> 2 [] c = "3" -> 3
      [] c = "4" -> 4 [] c = "5" -> 5 [] c = "6" -> 6 [] c = "7" -> 7
      [] c = "8" -> 8 [] c = "9" -> 9

RECURSIVE ParseDigits(_, _)
ParseDigits(s, acc) ==
    IF s = <<>> THEN acc
    ELSE ParseDigits(Tail(s), acc * 10 + DigitVal(Head(s)))

DotPos(s) ==
    IF \E i \in DOMAIN s : s[i] = "."
    THEN CHOOSE i \in DOMAIN s : s[i] = "."
    ELSE Len(s) + 1

PadFraction(s) ==
    IF Len(s) >= 3 THEN SubSeq(s, 1, 3)
    ELSE s \o [i \in 1..(3 - Len(s)) |-> "0"]

ParseFloat(s) ==
    LET d == DotPos(s)
        ip == SubSeq(s, 1, d - 1)
        fp == SubSeq(s, d + 1, Len(s))
    IN  Float(ParseDigits(ip, 0) * 1000 + ParseDigits(PadFraction(fp), 0))

-----------------------------------------------------------------------------
(* models.py: NearEarthObject *)

\* NearEarthObject.__init__ storing the name as given, the empty string included
NearEarthObject_keeps_empty_name(info) ==
    [designation |-> info.pdes,
     name        |-> Str(info.name),
     diameter    |-> IF info.diameter = <<>> THEN NaN ELSE ParseFloat(info.diameter),
     hazardous   |-> info.pha,
     approaches  |-> <<>>]

NearEarthObject(info) ==
    [designation |-> info.pdes,
     name        |-> IF info.name = "" THEN None ELSE Str(info.name),
     diameter    |-> IF info.diameter = <<>> THEN NaN ELSE ParseFloat(info.diameter),
     hazardous   |-> info.pha,
     approaches  |-> <<>>]

fullname(neo) ==
    IF neo.name = None
    THEN neo.designation
    ELSE neo.designation \o " " \o neo.name.val

-----------------------------------------------------------------------------
(* filters.py: AttributeFilter and its subclasses *)

MaxVal == 1
MaxDay == 2

Operators == {"eq", "ge", "le"}
FloatValues == {Float(x) : x \in 0..MaxVal}
DateValues == {Date(d) : d \in 1..MaxDay}
BoolValues == {Bool(b) : b \in BOOLEAN}

\* AttributeFilter.__init__, inherited by every subclass
AttributeFilter(op, value) == [cls |-> "AttributeFilter", op |-> op, value |-> value]
DistanceFilter(op, value) == [AttributeFilter(op, value) EXCEPT !.cls = "DistanceFilter"]
VelocityFilter(op, value) == [AttributeFilter(op, value) EXCEPT !.cls = "VelocityFilter"]
DiameterFilter(op, value) == [AttributeFilter(op, value) EXCEPT !.cls = "DiameterFilter"]
HazardousFilter(op, value) == [AttributeFilter(op, value) EXCEPT !.cls = "HazardousFilter"]
DateFilter(op, value) == [AttributeFilter(op, value) EXCEPT !.cls = "DateFilter"]

-----------------------------------------------------------------------------
(* models.py: CloseApproach, with its neo reference resolved *)

\* the neo reference is the designation under which the dataset keeps the NEO
CloseApproach(des, time, dist, v_rel) ==
    [_designation |-> des, time |-> time, distance |-> dist,
     velocity |-> v_rel, neo |-> des]

\* datetime.date(): the calendar date, time of day dropped
datetime_date(t) == Date(t.day)

-----------------------------------------------------------------------------
(* filters.py: the get classmethods, the comparators and __call__ *)

AttributeFilter_get(approach) == Raise("UnsupportedCriterionError")
DistanceFilter_get(approach) == Return(approach.distance)
VelocityFilter_get(approach) == Return(approach.velocity)
DiameterFilter_get(approach) == Return(neos[approach.neo].diameter)
HazardousFilter_get(approach) == Return(neos[approach.neo].hazardous)
DateFilter_get(approach) == Return(datetime_date(approach.time))

\* method resolution of self.get by the predicate's class
get(cls, approach) ==
    CASE cls = "DistanceFilter" -> DistanceFilter_get(approach)
      [] cls = "VelocityFilter" -> VelocityFilter_get(approach)
      [] cls = "DiameterFilter" -> DiameterFilter_get(approach)
      [] cls = "HazardousFilter" -> HazardousFilter_get(approach)
      [] cls = "DateFilter" -> DateFilter_get(approach)
      [] OTHER -> AttributeFilter_get(approach)

\* the number Python compares a bool, a float or a date by
Ordinal(v) == IF v.tag = "bool" THEN (IF v.val THEN 1 ELSE 0) ELSE v.val

\* operator.eq, operator.ge, operator.le; every comparison with NaN is False
PyOperator(op, x, y) ==
    IF x.tag = "nan" \/ y.tag = "nan"
    THEN Bool(FALSE)
    ELSE CASE op = "eq" -> Bool(Ordinal(x) = Ordinal(y))
           [] op = "ge" -> Bool(Ordinal(x) >= Ordinal(y))
           [] op = "le" -> Bool(Ordinal(x) <= Ordinal(y))

\* __call__ with the operands exchanged: value OP get(approach)
AttributeFilter_call_swapped(self, approach) ==
    LET got == get(self.cls, approach)
    IN  IF got.tag = "exception"
        THEN got
        ELSE Return(PyOperator(self.op, self.value, got.val))

\* __call__ catching the exception of get and answering False
AttributeFilter_call_swallowing(self, approach) ==
    LET got == get(self.cls, approach)
    IN  IF got.tag = "exception"
        THEN Return(Bool(FALSE))
        ELSE Return(PyOperator(self.op, got.val, self.value))

\* AttributeFilter.__call__: an exception of get propagates
AttributeFilter_call(self, approach) ==
    LET got == get(self.cls, approach)
    IN  IF got.tag = "exception"
        THEN got
        ELSE Return(PyOperator(self.op, got.val, self.value))

-----------------------------------------------------------------------------
(* filters.py: create_filters *)

\* truthiness that takes every number, zero included, for true
Truthy_nonzero_blind(v) ==
    CASE v.tag = "None" -> FALSE
      [] v.tag = "bool" -> v.val
      [] OTHER -> TRUE

\* Python truthiness of a value: None, False and zero are falsy
Truthy(v) ==
    CASE v.tag = "None" -> FALSE
      [] v.tag = "bool" -> v.val
      [] v.tag = "float" -> v.val # 0
      [] v.tag = "int" -> v.val # 0
      [] OTHER -> TRUE

\* the test "if x:" in place of "if x is not None:"
IsNotNone_truthiness(v) ==
    CASE v.tag = "None" -> FALSE
      [] v.tag = "bool" -> v.val
      [] v.tag = "float" -> v.val # 0
      [] OTHER -> TRUE

\* the test "x is not None"
IsNotNone(v) == v # None

\* create_filters with the comparators of distance_max and distance_min exchanged
create_filters_swapped_distance(a) ==
    LET f0  == <<>>
        f1  == IF IsNotNone(a.date)
               THEN Append(f0, DateFilter("eq", a.date)) ELSE f0
        f2  == IF IsNotNone(a.start_date)
               THEN Append(f1, DateFilter("ge", a.start_date)) ELSE f1
        f3  == IF IsNotNone(a.end_date)
               THEN Append(f2, DateFilter("le", a.end_date)) ELSE f2
        f4  == IF IsNotNone(a.distance_max)
               THEN Append(f3, DistanceFilter("ge", a.distance_max)) ELSE f3
        f5  == IF IsNotNone(a.distance_min)
               THEN Append(f4, DistanceFilter("le", a.distance_min)) ELSE f4
        f6  == IF IsNotNone(a.velocity_max)
               THEN Append(f5, VelocityFilter("le", a.velocity_max)) ELSE f5
        f7  == IF IsNotNone(a.velocity_min)
               THEN Append(f6, VelocityFilter("ge", a.velocity_min)) ELSE f6
        f8  == IF IsNotNone(a.diameter_max)
               THEN Append(f7, DiameterFilter("le", a.diameter_max)) ELSE f7
        f9  == IF IsNotNone(a.diameter_min)
               THEN Append(f8, DiameterFilter("ge", a.diameter_min)) ELSE f8
        f10 == IF IsNotNone(a.hazardous)
               THEN Append(f9, HazardousFilter("eq", a.hazardous)) ELSE f9
    IN  f10

create_filters(a) ==
    LET f0  == <<>>
        f1  == IF IsNotNone(a.date)
               THEN Append(f0, DateFilter("eq", a.date)) ELSE f0
        f2  == IF IsNotNone(a.start_date)
               THEN Append(f1, DateFilter("ge", a.start_date)) ELSE f1
        f3  == IF IsNotNone(a.end_date)
               THEN Append(f2, DateFilter("le", a.end_date)) ELSE f2
        f4  == IF IsNotNone(a.distance_max)
               THEN Append(f3, DistanceFilter("le", a.distance_max)) ELSE f3
        f5  == IF IsNotNone(a.distance_min)
               THEN Append(f4, DistanceFilter("ge", a.distance_min)) ELSE f4
        f6  == IF IsNotNone(a.velocity_max)
               THEN Append(f5, VelocityFilter("le", a.velocity_max)) ELSE f5
        f7  == IF IsNotNone(a.velocity_min)
               THEN Append(f6, VelocityFilter("ge", a.velocity_min)) ELSE f6
        f8  == IF IsNotNone(a.diameter_max)
               THEN Append(f7, DiameterFilter("le", a.diameter_max)) ELSE f7
        f9  == IF IsNotNone(a.diameter_min)
               THEN Append(f8, DiameterFilter("ge", a.diameter_min)) ELSE f8
        f10 == IF IsNotNone(a.hazardous)
               THEN Append(f9, HazardousFilter("eq", a.hazardous)) ELSE f9
    IN  f10

OptionalDate == {None} \cup DateValues
OptionalFloat == {None} \cup FloatValues
OptionalBool == {None} \cup BoolValues

Arguments ==
    [date : OptionalDate, start_date : OptionalDate, end_date : OptionalDate,
     distance_min : OptionalFloat, distance_max : OptionalFloat,
     velocity_min : OptionalFloat, velocity_max : OptionalFloat,
     diameter_min : OptionalFloat, diameter_max : OptionalFloat,
     hazardous : OptionalBool]

NoArguments ==
    [date |-> None, start_date |-> None, end_date |-> None,
     distance_min |-> None, distance_max |-> None,
     velocity_min |-> None, velocity_max |-> None,
     diameter_min |-> None, diameter_max |-> None,
     hazardous |-> None]

IdleCompile ==
    /\ args = NoArguments
    /\ filters = <<>>
    /\ compile_pc = "idle"

IdleLoad ==
    /\ csv_rows = <<>>
    /\ reader_pos = 0
    /\ neo_list = <<>>
    /\ load_pc = "idle"
    /\ load_result = None

IdleLimit ==
    /\ items = <<>>
    /\ drawn = 0
    /\ n = None
    /\ taken = <<>>
    /\ limit_pc = "idle"
    /\ limit_result = None
    /\ consumed = <<>>

IdleEval ==
    /\ neos = <<>>
    /\ approaches = <<>>
    /\ preds = {}
    /\ results = {}

-----------------------------------------------------------------------------
(* extract.py: load_neos *)

MaxRows == 3

Designations == {"433", "2000 AB", "1036", "99942"}
Names == {"", "Apophis-like"}
Diameters == {<<>>, <<"0", ".", "3", "7", "0">>}
PhaFlags == {"Y", "N", ""}

RawNeoRecords ==
    [pdes : Designations, name : Names, diameter : Diameters, pha : PhaFlags]

UniqueDesignations(rows) ==
    \A i, j \in DOMAIN rows : rows[i].pdes = rows[j].pdes => i = j

InitLoad ==
    /\ \E k \in 0..MaxRows :
         /\ csv_rows \in [1..k -> RawNeoRecords]
         /\ UniqueDesignations(csv_rows)
    /\ reader_pos = 0
    /\ neo_list = <<>>
    /\ load_pc = "start"
    /\ load_result = None
    /\ IdleCompile /\ IdleLimit /\ IdleEval

\* lines 28-31: the DictReader takes the header line as field names by itself,
\* so next(reader) hands out the first data row (StopIteration if there is none)
load_neos_open ==
    /\ load_pc = "start"
    /\ neo_list' = <<>>
    /\ IF Len(csv_rows) = 0
       THEN /\ load_pc' = "raised"
            /\ load_result' = Raise("StopIteration")
            /\ UNCHANGED reader_pos
       ELSE /\ load_pc' = "loop"
            /\ reader_pos' = reader_pos + 1
            /\ UNCHANGED load_result
    /\ UNCHANGED csv_rows
    /\ UNCHANGED <<compileVars, limitVars, evalVars>>

\* the loop body testing row["pha"] != 'N' in place of row["pha"] == 'Y'
load_neos_row_not_N ==
    /\ load_pc = "loop"
    /\ reader_pos < Len(csv_rows)
    /\ LET row == csv_rows[reader_pos + 1]
           neo == IF row.pha # "N"
                  THEN NearEarthObject([pdes |-> row.pdes, name |-> row.name,
                                        diameter |-> row.diameter, pha |-> Bool(TRUE)])
                  ELSE NearEarthObject([pdes |-> row.pdes, name |-> row.name,
                                        diameter |-> row.diameter, pha |-> Bool(FALSE)])
       IN  neo_list' = Append(neo_list, neo)
    /\ reader_pos' = reader_pos + 1
    /\ UNCHANGED <<csv_rows, load_pc, load_result>>
    /\ UNCHANGED <<compileVars, limitVars, evalVars>>

\* lines 32-37: one iteration of the for loop
load_neos_row ==
    /\ load_pc = "loop"
    /\ reader_pos < Len(csv_rows)
    /\ LET row == csv_rows[reader_pos + 1]
           neo == IF row.pha = "Y"
                  THEN NearEarthObject([pdes |-> row.pdes, name |-> row.name,
                                        diameter |-> row.diameter, pha |-> Bool(TRUE)])
                  ELSE NearEarthObject([pdes |-> row.pdes, name |-> row.name,
                                        diameter |-> row.diameter, pha |-> Bool(FALSE)])
       IN  neo_list' = Append(neo_list, neo)
    /\ reader_pos' = reader_pos + 1
    /\ UNCHANGED <<csv_rows, load_pc, load_result>>
    /\ UNCHANGED <<compileVars, limitVars, evalVars>>

\* line 38
load_neos_return ==
    /\ load_pc = "loop"
    /\ reader_pos = Len(csv_rows)
    /\ load_pc' = "done"
    /\ load_result' = Return(neo_list)
    /\ UNCHANGED <<csv_rows, reader_pos, neo_list>>
    /\ UNCHANGED <<compileVars, limitVars, evalVars>>

NextLoad ==
    \/ load_neos_open
    \/ load_neos_row
    \/ load_neos_return

SpecLoad == InitLoad /\ [][NextLoad]_vars

-----------------------------------------------------------------------------
(* The criterion compiler: one create_filters call with every combination of
   the ten options *)

InitCompile ==
    /\ args = NoArguments
    /\ filters = <<>>
    /\ compile_pc = "start"
    /\ IdleLoad /\ IdleLimit /\ IdleEval

call_create_filters ==
    /\ compile_pc = "start"
    /\ \E a \in Arguments :
         /\ args' = a
         /\ filters' = create_filters(a)
    /\ compile_pc' = "done"
    /\ UNCHANGED <<loadVars, limitVars, evalVars>>

NextCompile == call_create_filters

SpecCompile == InitCompile /\ [][NextCompile]_vars

-----------------------------------------------------------------------------
(* filters.py: limit, and a caller that draws the returned value to its end *)

MaxLen == 3
MaxN == 4

Items == {"a", "b"}
Limits == {None} \cup {PyInt(k) : k \in -1..MaxN}

InitLimit ==
    /\ \E k \in 0..MaxLen : items \in [1..k -> Items]
    /\ drawn = 0
    /\ n = None
    /\ taken = <<>>
    /\ limit_pc = "start"
    /\ limit_result = None
    /\ consumed = <<>>
    /\ IdleLoad /\ IdleCompile /\ IdleEval

\* lines 222-225: the test "if n:"; the else branch returns the iterator object
\* itself, and islice rejects a negative stop with ValueError
call_limit ==
    /\ limit_pc = "start"
    /\ \E k \in Limits :
         /\ n' = k
         /\ IF Truthy(k)
            THEN IF k.val < 0
                 THEN /\ limit_pc' = "raised"
                      /\ limit_result' = Raise("ValueError")
                 ELSE /\ limit_pc' = "islice"
                      /\ UNCHANGED limit_result
            ELSE /\ limit_pc' = "returned"
                 /\ limit_result' = Return([tag |-> "iterator"])
    /\ taken' = <<>>
    /\ UNCHANGED <<items, drawn, consumed>>
    /\ UNCHANGED <<loadVars, compileVars, evalVars>>

\* islice asking the iterator once more after the n-th item
islice_next_one_more ==
    /\ limit_pc = "islice"
    /\ Len(taken) <= n.val
    /\ drawn < Len(items)
    /\ drawn' = drawn + 1
    /\ taken' = IF Len(taken) < n.val THEN Append(taken, items[drawn + 1]) ELSE taken
    /\ limit_pc' = IF Len(taken) < n.val THEN limit_pc ELSE "returned"
    /\ limit_result' = IF Len(taken) < n.val THEN limit_result
                       ELSE Return([tag |-> "list", val |-> taken])
    /\ UNCHANGED <<items, n, consumed>>
    /\ UNCHANGED <<loadVars, compileVars, evalVars>>

\* line 223: list() asks islice for one more item; islice has handed out fewer
\* than n and the iterator has one
islice_next ==
    /\ limit_pc = "islice"
    /\ Len(taken) < n.val
    /\ drawn < Len(items)
    /\ drawn' = drawn + 1
    /\ taken' = Append(taken, items[drawn + 1])
    /\ UNCHANGED <<items, n, limit_pc, limit_result, consumed>>
    /\ UNCHANGED <<loadVars, compileVars, evalVars>>

\* line 223: islice is done after n items (without asking the iterator again)
\* or when the iterator is exhausted; limit returns the list
islice_stop ==
    /\ limit_pc = "islice"
    /\ (Len(taken) = n.val \/ drawn = Len(items))
    /\ limit_pc' = "returned"
    /\ limit_result' = Return([tag |-> "list", val |-> taken])
    /\ UNCHANGED <<items, drawn, n, taken, consumed>>
    /\ UNCHANGED <<loadVars, compileVars, evalVars>>

\* the caller draws the next item of the returned value: from the list, or
\* from the iterator itself when limit returned it
caller_next ==
    /\ limit_pc = "returned"
    /\ IF limit_result.val.tag = "iterator"
       THEN /\ drawn < Len(items)
            /\ drawn' = drawn + 1
            /\ consumed' = Append(consumed, items[drawn + 1])
       ELSE /\ Len(consumed) < Len(limit_result.val.val)
            /\ consumed' = Append(consumed, limit_result.val.val[Len(consumed) + 1])
            /\ UNCHANGED drawn
    /\ UNCHANGED <<items, n, taken, limit_pc, limit_result>>
    /\ UNCHANGED <<loadVars, compileVars, evalVars>>

\* the caller finds the returned value exhausted
caller_stop ==
    /\ limit_pc = "returned"
    /\ IF limit_result.val.tag = "iterator"
       THEN drawn = Len(items)
       ELSE Len(consumed) = Len(limit_result.val.val)
    /\ limit_pc' = "drained"
    /\ UNCHANGED <<items, drawn, n, taken, limit_result, consumed>>
    /\ UNCHANGED <<loadVars, compileVars, evalVars>>

NextLimit ==
    \/ call_limit
    \/ islice_next
    \/ islice_stop
    \/ caller_next
    \/ caller_stop

SpecLimit == InitLimit /\ [][NextLimit]_vars

-----------------------------------------------------------------------------
(* Predicate construction and evaluation over a linked dataset *)

Classes ==
    {"AttributeFilter", "DistanceFilter", "VelocityFilter", "DiameterFilter",
     "HazardousFilter", "DateFilter"}

Hours == {0, 12}

\* the reference values a predicate of a class is built with
ReferenceValues ==
    [cls \in Classes |->
        CASE cls = "HazardousFilter" -> BoolValues
          [] cls = "DateFilter" -> DateValues
          [] OTHER -> FloatValues]

\* the result of the dataset's linking pass: every approach refers to an
\* existing NEO, and every NEO lists the approaches that refer to it
Linked(ns, cas) ==
    /\ \A i \in DOMAIN cas : cas[i].neo \in DOMAIN ns
    /\ \A d \in DOMAIN ns :
         /\ ns[d].designation = d
         /\ \A i \in DOMAIN cas : (cas[i].neo = d) <=> (i \in Range(ns[d].approaches))
         /\ \A i, j \in DOMAIN ns[d].approaches :
              i < j => ns[d].approaches[i] < ns[d].approaches[j]

\* one NEO and its one close approach, every field drawn
InitEval ==
    /\ \E diameter \in {NaN} \cup FloatValues, hazardous \in BoolValues,
          name \in {None, Str("Apophis-like")} :
         neos = [d \in {"433"} |->
                   [designation |-> d, name |-> name, diameter |-> diameter,
                    hazardous |-> hazardous, approaches |-> <<1>>]]
    /\ \E day \in 1..MaxDay, hour \in Hours, dist \in FloatValues, v_rel \in FloatValues :
         approaches = <<CloseApproach("433", Datetime(day, hour), dist, v_rel)>>
    /\ preds = {}
    /\ results = {}
    /\ IdleLoad /\ IdleCompile /\ IdleLimit

\* a predicate object is constructed: Class(op, value)
new_filter(values, limit) ==
    /\ Cardinality(preds) < limit
    /\ \E cls \in Classes, op \in Operators :
         \E value \in values[cls] :
            preds' = preds \cup {[AttributeFilter(op, value) EXCEPT !.cls = cls]}
    /\ UNCHANGED <<neos, approaches, results>>
    /\ UNCHANGED <<loadVars, compileVars, limitVars>>

\* a call whose DateFilter.get truncates approach.time to its date in place
call_filter_truncating ==
    /\ \E self \in preds, i \in DOMAIN approaches :
         /\ results' = results \cup
              {[pred |-> self, approach |-> i,
                outcome |-> AttributeFilter_call(self, approaches[i])]}
         /\ approaches' =
              IF self.cls = "DateFilter"
              THEN [approaches EXCEPT ![i].time = Datetime(approaches[i].time.day, 0)]
              ELSE approaches
    /\ UNCHANGED <<neos, preds>>
    /\ UNCHANGED <<loadVars, compileVars, limitVars>>

\* a predicate is called on a close approach of the dataset
call_filter ==
    /\ \E self \in preds, i \in DOMAIN approaches :
         results' = results \cup
             {[pred |-> self, approach |-> i,
               outcome |-> AttributeFilter_call(self, approaches[i])]}
    /\ UNCHANGED <<neos, approaches, preds>>
    /\ UNCHANGED <<loadVars, compileVars, limitVars>>

NextEval ==
    \/ new_filter(ReferenceValues, 1)
    \/ call_filter

SpecEval == InitEval /\ [][NextEval]_vars

-----------------------------------------------------------------------------
(* Repeated and interleaved predicate calls over a dataset of two NEOs and two
   close approaches *)

MaxPreds == 2

\* one reference value for each class
PureValues ==
    [cls \in Classes |->
        CASE cls = "HazardousFilter" -> {Bool(FALSE)}
          [] cls = "DateFilter" -> {Date(1)}
          [] OTHER -> {Float(1)}]

\* two NEOs and two close approaches, each approach linked to either NEO
InitPure ==
    /\ \E owner \in [1..2 -> {"433", "2000 AB"}] :
         /\ approaches =
              <<CloseApproach(owner[1], Datetime(1, 0), Float(0), Float(1)),
                CloseApproach(owner[2], Datetime(2, 12), Float(1), Float(0))>>
         /\ neos = [d \in {"433", "2000 AB"} |->
              [designation |-> d,
               name        |-> IF d = "433" THEN None ELSE Str("Apophis-like"),
               diameter    |-> IF d = "433" THEN NaN ELSE Float(1),
               hazardous   |-> Bool(d # "433"),
               approaches  |-> SelectSeq(<<1, 2>>, LAMBDA i : owner[i] = d)]]
    /\ preds = {}
    /\ results = {}
    /\ IdleLoad /\ IdleCompile /\ IdleLimit

NextPure ==
    \/ new_filter(PureValues, MaxPreds)
    \/ call_filter

SpecPure == InitPure /\ [][NextPure]_vars

-----------------------------------------------------------------------------
(* Properties of the criterion compiler (SpecCompile) *)

\* the table of options: option, predicate class, comparator
OptionTable ==
    {[opt |-> "date", cls |-> "DateFilter", op |-> "eq"],
     [opt |-> "start_date", cls |-> "DateFilter", op |-> "ge"],
     [opt |-> "end_date", cls |-> "DateFilter", op |-> "le"],
     [opt |-> "distance_min", cls |-> "DistanceFilter", op |-> "ge"],
     [opt |-> "distance_max", cls |-> "DistanceFilter", op |-> "le"],
     [opt |-> "velocity_min", cls |-> "VelocityFilter", op |-> "ge"],
     [opt |-> "velocity_max", cls |-> "VelocityFilter", op |-> "le"],
     [opt |-> "diameter_min", cls |-> "DiameterFilter", op |-> "ge"],
     [opt |-> "diameter_max", cls |-> "DiameterFilter", op |-> "le"],
     [opt |-> "hazardous", cls |-> "HazardousFilter", op |-> "eq"]}

\* C1: the tuple create_filters returns holds, for every option that is not
\* None, exactly one predicate of the table's class and comparator with the
\* option's value as reference value, and no predicate for an option that is
\* None; with no option supplied it is empty.
C1_OnePredicatePerSuppliedOption ==
    compile_pc = "done" =>
        /\ \A o \in OptionTable :
             Cardinality({i \in DOMAIN filters :
                             filters[i].cls = o.cls /\ filters[i].op = o.op})
               = (IF args[o.opt] = None THEN 0 ELSE 1)
        /\ \A o \in OptionTable :
             args[o.opt] # None =>
                \E i \in DOMAIN filters :
                   filters[i] = [cls |-> o.cls, op |-> o.op, value |-> args[o.opt]]
        /\ \A i \in DOMAIN filters :
             \E o \in OptionTable : filters[i].cls = o.cls /\ filters[i].op = o.op
        /\ Len(filters) = Cardinality({o \in OptionTable : args[o.opt] # None})
        /\ (args = NoArguments => filters = <<>>)

C1_Witness ==
    /\ compile_pc = "done"
    /\ \A o \in OptionTable : args[o.opt] # None
    /\ args.distance_min = Float(0)
    /\ Len(filters) = 10

\* C2: an option counts as supplied when it is not None, whatever its truth
\* value: hazardous=False alone gives exactly the one predicate
\* HazardousFilter(eq, False), and hazardous=None gives no HazardousFilter.
C2_HazardousFalseIsSupplied ==
    compile_pc = "done" =>
        /\ (args = [NoArguments EXCEPT !.hazardous = Bool(FALSE)] =>
               filters = <<[cls |-> "HazardousFilter", op |-> "eq",
                            value |-> Bool(FALSE)]>>)
        /\ (args.hazardous = Bool(FALSE) =>
               Cardinality({i \in DOMAIN filters :
                               filters[i].cls = "HazardousFilter"}) = 1)
        /\ (args.hazardous = None =>
               \A i \in DOMAIN filters : filters[i].cls # "HazardousFilter")

C2_Witness ==
    /\ compile_pc = "done"
    /\ args = [NoArguments EXCEPT !.hazardous = Bool(FALSE)]
    /\ Len(filters) = 1
    /\ filters[1].value = Bool(FALSE)

-----------------------------------------------------------------------------
(* Properties of the result limiter (SpecLimit) *)

Min(a, b) == IF a <= b THEN a ELSE b

\* C3: with n > 0 the iterator never produces more than n items, limit returns
\* the first min(n, length) items in their order, and a caller that draws the
\* result to its end gets exactly these.
C3_LimitTakesFirstN ==
    (n.tag = "int" /\ n.val > 0) =>
        /\ drawn <= n.val
        /\ limit_pc \in {"returned", "drained"} =>
              limit_result =
                 Return([tag |-> "list",
                         val |-> SubSeq(items, 1, Min(n.val, Len(items)))])
        /\ limit_pc = "drained" =>
              consumed = SubSeq(items, 1, Min(n.val, Len(items)))

C3_Witness ==
    /\ limit_pc = "drained"
    /\ n.tag = "int"
    /\ n.val > 0
    /\ n.val < Len(items)
    /\ drawn = n.val
    /\ consumed = SubSeq(items, 1, n.val)

\* C4: with n None or 0, limit returns the iterator itself and has drawn
\* nothing from it (every item produced was drawn by the caller), and the
\* caller that draws it to its end gets all items in order.
C4_NoLimitReturnsInput ==
    ((n = None \/ n = PyInt(0)) /\ limit_pc \in {"returned", "drained"}) =>
        /\ limit_result = Return([tag |-> "iterator"])
        /\ taken = <<>>
        /\ drawn = Len(consumed)
        /\ consumed = SubSeq(items, 1, drawn)
        /\ limit_pc = "drained" => consumed = items

C4_Witness ==
    /\ limit_pc = "drained"
    /\ n = PyInt(0)
    /\ Len(items) >= 2
    /\ consumed = items

-----------------------------------------------------------------------------
(* Properties of predicate evaluation (SpecEval, SpecPure) *)

\* the attribute of each predicate kind, read off the dataset
AttributeOf(cls, i) ==
    CASE cls = "DistanceFilter" -> approaches[i].distance
      [] cls = "VelocityFilter" -> approaches[i].velocity
      [] cls = "DiameterFilter" -> neos[approaches[i].neo].diameter
      [] cls = "HazardousFilter" -> neos[approaches[i].neo].hazardous
      [] cls = "DateFilter" -> Date(approaches[i].time.day)

\* x OP v on numbers, False below True, nothing comparing with NaN
Compares(op, x, v) ==
    /\ x # NaN
    /\ v # NaN
    /\ LET l == IF x.tag = "bool" THEN (IF x.val THEN 1 ELSE 0) ELSE x.val
           r == IF v.tag = "bool" THEN (IF v.val THEN 1 ELSE 0) ELSE v.val
       IN  \/ op = "eq" /\ l = r
           \/ op = "ge" /\ l >= r
           \/ op = "le" /\ l <= r

\* C5: a call of a predicate of a concrete kind returns the truth of
\* attribute OP reference value, the reference value on the right.
C5_PredicateComparesAttribute ==
    \A e \in results :
       e.pred.cls # "AttributeFilter" =>
          e.outcome =
             Return(Bool(Compares(e.pred.op, AttributeOf(e.pred.cls, e.approach),
                                  e.pred.value)))

C5_Witness ==
    \E e \in results :
       /\ e.pred.cls = "DiameterFilter"
       /\ e.pred.op = "le"
       /\ neos[approaches[e.approach].neo].diameter # NaN
       /\ neos[approaches[e.approach].neo].diameter.val < e.pred.value.val
       /\ e.outcome = Return(Bool(TRUE))

\* C6: a call of a plain AttributeFilter raises UnsupportedCriterionError to
\* the caller and returns nothing.
C6_BasePredicateRaises ==
    \A e \in results :
       e.pred.cls = "AttributeFilter" =>
          e.outcome = Raise("UnsupportedCriterionError")

C6_Witness ==
    \E e \in results :
       /\ e.pred.cls = "AttributeFilter"
       /\ e.outcome.tag = "exception"

\* C9: no step changes a close approach, a NEO or a constructed predicate, and
\* a predicate never gives two different results on the same close approach.
C9_EvaluationIsPure ==
    /\ [][/\ neos' = neos
          /\ approaches' = approaches
          /\ preds \subseteq preds']_vars
    /\ [](\A e1, e2 \in results :
             (e1.pred = e2.pred /\ e1.approach = e2.approach) =>
                e1.outcome = e2.outcome)

C9_Witness ==
    /\ Cardinality(preds) = 2
    /\ \A p \in preds : p.cls \in {"DateFilter", "DiameterFilter"}
    /\ \A p \in preds, i \in DOMAIN approaches :
          \E e \in results : e.pred = p /\ e.approach = i

-----------------------------------------------------------------------------
(* Properties of NEO construction and loading (SpecLoad) *)

\* the data row a NEO was constructed from (designations are unique)
RowOf(neo) == CHOOSE r \in Range(csv_rows) : r.pdes = neo.designation

\* C7: a constructed NEO is hazardous exactly when its row's pha flag is "Y".
C7_HazardousIffPhaY ==
    \A i \in DOMAIN neo_list :
       /\ \E r \in Range(csv_rows) : r.pdes = neo_list[i].designation
       /\ neo_list[i].hazardous = Bool(RowOf(neo_list[i]).pha = "Y")

C7_Witness ==
    \E i \in DOMAIN neo_list :
       /\ RowOf(neo_list[i]) =
             [pdes |-> "433", name |-> "", diameter |-> <<>>, pha |-> "N"]
       /\ neo_list[i].hazardous = Bool(FALSE)

\* C8: a constructed NEO has name None for an empty name and the name
\* otherwise, diameter NaN for an empty diameter and the parsed number
\* otherwise, no approaches, and a fullname that is the designation alone or
\* the designation, one space and the name.
C8_NameDiameterFullname ==
    \A i \in DOMAIN neo_list :
       LET neo == neo_list[i]
           r == RowOf(neo)
       IN  /\ (r.name = "") <=> (neo.name = None)
           /\ r.name # "" => (neo.name.tag = "str" /\ neo.name.val = r.name)
           /\ (r.diameter = <<>>) <=> (neo.diameter = NaN)
           /\ r.diameter = <<"0", ".", "3", "7", "0">> => neo.diameter = Float(370)
           /\ neo.approaches = <<>>
           /\ r.name = "" => fullname(neo) = r.pdes
           /\ r.name # "" => fullname(neo) = r.pdes \o " " \o r.name
           /\ (r.pdes = "433" /\ r.name = "") => fullname(neo) = "433"
           /\ (r.pdes = "2000 AB" /\ r.name = "Apophis-like") =>
                 fullname(neo) = "2000 AB Apophis-like"

C8_Witness ==
    \E i, j \in DOMAIN neo_list :
       /\ neo_list[i].designation = "2000 AB"
       /\ neo_list[i].name = Str("Apophis-like")
       /\ neo_list[i].diameter = Float(370)
       /\ fullname(neo_list[i]) = "2000 AB Apophis-like"
       /\ neo_list[j].designation = "433"
       /\ neo_list[j].name = None
       /\ neo_list[j].diameter = NaN
       /\ fullname(neo_list[j]) = "433"

\* C10: load_neos returns one NEO for every data row, in file order.
C10_OneNeoPerDataRow ==
    load_pc = "done" =>
        /\ Len(load_result.val) = Len(csv_rows)
        /\ \A i \in DOMAIN csv_rows :
              load_result.val[i].designation = csv_rows[i].pdes

====
